---- MODULE Spec2Model ----
(***************************************************************************)
(* Consumer Group Manager (pkg/common/consumer/consumer_manager.go).       *)
(*                                                                         *)
(* The manager keeps a registry of managed consumer groups, each wrapping  *)
(* one current sarama ConsumerGroup ("session").  Callers (user code and   *)
(* control-protocol handler threads) run StartConsumerGroup,               *)
(* CloseConsumerGroup, Reconfigure and the stop/start commands; every      *)
(* started group also has one consume-loop goroutine.  One action of this  *)
(* module is one step of one of those threads between two accesses to      *)
(* shared state.                                                           *)
(*                                                                         *)
(* The managedGroup type (createManagedGroup, stop, start, close, consume, *)
(* processLock, errors) is not part of consumer_manager.go; the mg*        *)
(* operators below follow section 4.2 of the specification.                *)
(***************************************************************************)
EXTENDS Integers, Sequences, FiniteSets, TLC

\* ------------------------------------------------------------------ bounds
MaxOps == 4          \* calls of the public API / control commands in one run
MaxSessions == 3     \* sessions the factory creates in one run
MaxGroups == 2       \* managed groups StartConsumerGroup creates in one run
MaxConfig == 1       \* Reconfigure installs a FactoryConfig in 1..MaxConfig
MaxSpins == 1        \* consume calls that find no group under their id in one run
MaxConcOps == 2      \* calls in one run of two concurrent callers
MaxCloseOps == 3     \* calls in one run of SpecClose

GroupIds == {"g1", "g2"}
Tokens == {"A", "B"}                 \* lock tokens of external controllers
Procs == {"p1", "p2"}                \* caller threads

\* ------------------------------------------------------- program constants
internalToken == "internal-token"
ConsumerGroupAsyncCommandVersion == 1
handlerErrorChannelSize == 10

NoToken == ""
NoGroup == 0                         \* nil managedGroup / absent map entry
NoSession == 0                       \* nil sarama.ConsumerGroup
InitialConfig == 0                   \* the FactoryConfig given to NewConsumerGroupManager

Versions == {ConsumerGroupAsyncCommandVersion - 1, ConsumerGroupAsyncCommandVersion}

\* commands.CommandLock; NoLock stands for a command that carries no token
NoLock == [token |-> NoToken, lockBefore |-> FALSE, unlockAfter |-> FALSE]
CommandLocks ==
    {NoLock} \cup
    {[token |-> t, lockBefore |-> lb, unlockAfter |-> ua] :
        t \in Tokens, lb \in BOOLEAN, ua \in BOOLEAN}

VARIABLES
    factory,    \* m.factory: the FactoryConfig in use
    groups,     \* m.groups: GroupId -> managed group (NoGroup when absent)
    mg,         \* the managed groups ever created, by identity
    sessions,   \* the sessions ever created by the factory, by identity
    loop,       \* the consume-loop goroutine of each started group
    proc,       \* each caller thread's position and locals
    opsLeft,    \* calls still allowed in this run
    spinsLeft,  \* consume calls on a missing group still allowed in this run
    callers     \* the caller threads that run

vars == <<factory, groups, mg, sessions, loop, proc, opsLeft, spinsLeft, callers>>

\* ------------------------------------------------------------------ records
\* A caller thread: pc is its position, op .. cfg the call it is in and its
\* arguments, grp .. errs the locals of that call, res and reply what the
\* call returned and what was replied to the control-protocol client.
\* managed, snap, calls and trace only record what happened: whether the
\* group was registered when the call began and what it looked like then,
\* what each stop and start of a Reconfigure returned, and the order of its
\* stops, install and starts.
NoSnap ==
    [gid |-> "none", state |-> "none", session |-> 0, lockedBy |-> "",
     errorsClosed |-> 0]

IdleProc ==
    [pc |-> "idle", op |-> "none", gid |-> "none", lock |-> NoLock,
     version |-> 0, cfg |-> 0, grp |-> NoGroup, ses |-> NoSession,
     todo |-> {}, seen |-> {}, restart |-> <<>>, errs |-> {},
     res |-> "none", reply |-> "none",
     managed |-> FALSE, snap |-> NoSnap, calls |-> {}, trace |-> <<>>]

\* ------------------------------------------------------- registry (293-312)
getGroup(groupId) == groups[groupId]

setGroup(groupId, group) == groups' = [groups EXCEPT ![groupId] = group]

removeGroup(groupId) == groups' = [groups EXCEPT ![groupId] = NoGroup]

\* Errors(groupId): the persistent error channel of the registered group.
\* A channel is identified by the managed group that made it.
Errors(groupId) == getGroup(groupId)

IsManaged(groupId) == getGroup(groupId) # NoGroup

\* --------------------------------------------------- factory (412-416, 421-449)
\* createConsumerGroup: newConsumerGroup(c.addrs, groupID, c.config)
createConsumerGroup(groupId) ==
    [gid |-> groupId, cfg |-> factory, closed |-> FALSE]

\* the goroutine of lines 425-447, about to call consume for the first time:
\* tgt and ses are the managed group and the session its consume call is on,
\* cancelled its context, handlerErrors the errors waiting in errorCh
newLoop ==
    [pc |-> "call", tgt |-> NoGroup, ses |-> NoSession, err |-> "nil",
     cancelled |-> FALSE, handlerErrors |-> 0, errorChClosed |-> FALSE]

\* faulty variant: the loop does not look at its context after an error
Loop_next_uncancelled(l, err) ==
    IF err = "closed"
    THEN [l EXCEPT !.pc = "release", !.errorChClosed = TRUE, !.err = "nil",
                   !.tgt = NoGroup, !.ses = NoSession]
    ELSE [l EXCEPT !.pc = "call", !.err = "nil", !.tgt = NoGroup,
                   !.ses = NoSession]

\* lines 426-429 and 434-445, after consume returned err with nothing to
\* send: the closed-group sentinel or a cancelled context end the loop
\* (close errorCh, offer the released signal), otherwise consume is called
\* again
Loop_next(l, err) ==
    IF err = "closed" \/ l.cancelled
    THEN [l EXCEPT !.pc = "release", !.errorChClosed = TRUE, !.err = "nil",
                   !.tgt = NoGroup, !.ses = NoSession]
    ELSE [l EXCEPT !.pc = "call", !.err = "nil", !.tgt = NoGroup,
                   !.ses = NoSession]

\* ------------------------------------------------ managed group (spec 4.2)
\* createManagedGroup: a managed group in Running state on the given session
createManagedGroup(groupId, session) ==
    [gid |-> groupId, state |-> "Running", session |-> session,
     lockedBy |-> NoToken, errorsClosed |-> 0]

\* processLock(lock, before): with lockBefore the token is stored when the
\* group is unlocked or already locked with the same token, and a different
\* holder makes the call fail with LockConflict once the bounded wait
\* (defaultLockTimeout) has expired; with unlockAfter the token is cleared.
mgProcessLock(m, lock, before) ==
    IF before
    THEN IF lock.lockBefore
         THEN IF m.lockedBy \in {NoToken, lock.token}
              THEN [err |-> "ok", lockedBy |-> lock.token]
              ELSE [err |-> "LockConflict", lockedBy |-> m.lockedBy]
         ELSE [err |-> "ok", lockedBy |-> m.lockedBy]
    ELSE IF lock.unlockAfter
         THEN [err |-> "ok", lockedBy |-> NoToken]
         ELSE [err |-> "ok", lockedBy |-> m.lockedBy]

\* stop(): valid from Running; closes the current session, arms the waiter,
\* goes to Stopped and leaves the persistent error channel open.
mgStopErr(m) == IF m.state = "Running" THEN "ok" ELSE "StopFailed"

mgStop(m) ==
    IF m.state = "Running"
    THEN [m EXCEPT !.state = "Stopped", !.session = NoSession]
    ELSE m

\* start(session): valid from Stopped; stores the session and goes to
\* Running. From Running or Closed it is a no-op that reports an error.
mgStartErr(m) == IF m.state = "Stopped" THEN "ok" ELSE "StartFailed"

mgStart(m, session) ==
    IF m.state = "Stopped"
    THEN [m EXCEPT !.state = "Running", !.session = session]
    ELSE m

\* close(), last part: closes the current session if any, closes the
\* persistent error channel, goes to Closed.
mgClosed(m) ==
    [m EXCEPT !.state = "Closed", !.session = NoSession,
              !.errorsClosed = @ + 1]

\* a session's Close()
closeSession(ss, s) ==
    IF s = NoSession THEN ss ELSE [ss EXCEPT ![s].closed = TRUE]

Init ==
    /\ factory = InitialConfig
    /\ groups = [g \in GroupIds |-> NoGroup]
    /\ mg = <<>>
    /\ sessions = <<>>
    /\ loop = <<>>
    /\ proc = [p \in Procs |-> IdleProc]
    /\ opsLeft = MaxOps
    /\ spinsLeft = MaxSpins
    /\ callers = {"p1"}

\* a call begins: op and arguments, nothing else
Snap(groupId) ==
    IF IsManaged(groupId) THEN mg[getGroup(groupId)] ELSE NoSnap

Call(op, groupId) ==
    [IdleProc EXCEPT !.op = op, !.gid = groupId,
                     !.managed = IsManaged(groupId), !.snap = Snap(groupId)]

\* a call of the public API returns res
Result(r, res) == [r EXCEPT !.pc = "ret", !.res = res]

\* the caller has the result and goes on to whatever it does next
Returned(p) ==
    /\ p \in callers
    /\ proc[p].pc = "ret"
    /\ proc' = [proc EXCEPT ![p] = IdleProc]
    /\ UNCHANGED <<factory, groups, mg, sessions, loop, opsLeft, spinsLeft, callers>>

\* faulty variant: the factory error is looked at after the consume loop
\* was spawned and the group registered
StartConsumerGroup_create_partial(p, groupId) ==
    /\ p \in callers
    /\ proc[p].pc = "idle"
    /\ opsLeft > 0
    /\ opsLeft' = opsLeft - 1
    /\ \/ /\ Len(sessions) < MaxSessions
          /\ Len(mg) < MaxGroups
          /\ sessions' = Append(sessions, createConsumerGroup(groupId))
          /\ loop' = Append(loop, newLoop)
          /\ mg' = Append(mg, createManagedGroup(groupId, Len(sessions) + 1))
          /\ groups' = groups
          /\ proc' = [proc EXCEPT ![p] =
                 [Call("StartConsumerGroup", groupId)
                  EXCEPT !.pc = "sc_set", !.grp = Len(mg) + 1]]
       \/ /\ Len(mg) < MaxGroups
          /\ loop' = Append(loop, newLoop)
          /\ mg' = Append(mg, createManagedGroup(groupId, NoSession))
          /\ groups' = [groups EXCEPT ![groupId] = Len(mg) + 1]
          /\ proc' = [proc EXCEPT ![p] =
                 Result(Call("StartConsumerGroup", groupId), "FactoryFailed")]
          /\ UNCHANGED sessions
    /\ UNCHANGED <<factory, spinsLeft, callers>>

\* ------------------------------------------- StartConsumerGroup (149-176)
\* lines 152-170: create the session, spawn the consume loop, build the
\* managed group
StartConsumerGroup_create(p, groupId) ==
    /\ p \in callers
    /\ proc[p].pc = "idle"
    /\ opsLeft > 0
    /\ opsLeft' = opsLeft - 1
    /\ \/ /\ Len(sessions) < MaxSessions
          /\ Len(mg) < MaxGroups
          /\ sessions' = Append(sessions, createConsumerGroup(groupId))
          /\ loop' = Append(loop, newLoop)
          /\ mg' = Append(mg, createManagedGroup(groupId, Len(sessions) + 1))
          /\ proc' = [proc EXCEPT ![p] =
                 [Call("StartConsumerGroup", groupId)
                  EXCEPT !.pc = "sc_set", !.grp = Len(mg) + 1]]
       \/ \* createConsumerGroup fails (153-156)
          /\ proc' = [proc EXCEPT ![p] =
                 Result(Call("StartConsumerGroup", groupId), "FactoryFailed")]
          /\ UNCHANGED <<mg, sessions, loop>>
    /\ UNCHANGED <<factory, groups, spinsLeft, callers>>

\* line 174-175: m.setGroup(groupId, managedGrp); return nil
StartConsumerGroup_set(p) ==
    /\ p \in callers
    /\ proc[p].pc = "sc_set"
    /\ setGroup(proc[p].gid, proc[p].grp)
    /\ proc' = [proc EXCEPT ![p] = Result(@, "ok")]
    /\ UNCHANGED <<factory, mg, sessions, loop, opsLeft, spinsLeft, callers>>

\* ------------------------------------------------- Reconfigure, per group
\* lines 123-131: a failed stop is noted in multiErr, a stopped group is
\* appended to groupsToRestart
Reconfigure_afterStop(r, err) ==
    [r EXCEPT !.pc = "rc_range",
              !.errs = IF err # "ok"
                       THEN @ \cup {[call |-> "stop", gid |-> r.gid, err |-> err]}
                       ELSE @,
              !.restart = IF err = "ok" THEN Append(@, r.gid) ELSE @]

\* faulty variant: the error of a failed start is dropped
Reconfigure_afterStart_dropped(r, err) ==
    [r EXCEPT !.pc = "rc_restart"]

\* lines 140-142: a failed start is noted in multiErr
Reconfigure_afterStart(r, err) ==
    [r EXCEPT !.pc = "rc_restart",
              !.errs = IF err # "ok"
                       THEN @ \cup {[call |-> "start", gid |-> r.gid, err |-> err]}
                       ELSE @]

\* --------------------------------- processAsyncGroupNotification (335-350)
\* faulty variant: a failed operation is answered with nothing
processAsyncGroupNotification_reply_silent(r, err) ==
    [r EXCEPT !.pc = "ret", !.res = err,
              !.reply = IF err # "ok" THEN "none" ELSE "NotifySuccess"]

\* lines 344-349: the reply to the control-protocol client
processAsyncGroupNotification_reply(r, err) ==
    [r EXCEPT !.pc = "ret", !.res = err,
              !.reply = IF err # "ok" THEN "NotifyFailed" ELSE "NotifySuccess"]

\* stopConsumerGroup / startConsumerGroup return err to their caller: the
\* control-protocol handler or Reconfigure. calls notes every return.
Return(r, call, err) ==
    IF r.op = "Reconfigure"
    THEN [(IF call = "stop" THEN Reconfigure_afterStop(r, err)
           ELSE Reconfigure_afterStart(r, err))
          EXCEPT !.calls = @ \cup {[call |-> call, gid |-> r.gid, err |-> err]}]
    ELSE processAsyncGroupNotification_reply(r, err)

\* faulty variant: no version gate
processAsyncGroupNotification_noGate(p, opcode, version, groupId, lock) ==
    /\ p \in callers
    /\ proc[p].pc = "idle"
    /\ opsLeft > 0
    /\ opsLeft' = opsLeft - 1
    /\ proc' = [proc EXCEPT ![p] =
           [Call(opcode, groupId)
            EXCEPT !.lock = lock, !.version = version,
                   !.pc = IF opcode = "StopConsumerGroupOpCode"
                          THEN "st_lock" ELSE "sa_lock"]]
    /\ UNCHANGED <<factory, groups, mg, sessions, loop, spinsLeft, callers>>

\* lines 336-344: the version gate, then the call of groupFunction
processAsyncGroupNotification(p, opcode, version, groupId, lock) ==
    /\ p \in callers
    /\ proc[p].pc = "idle"
    /\ opsLeft > 0
    /\ opsLeft' = opsLeft - 1
    /\ LET cmd == [Call(opcode, groupId) EXCEPT !.lock = lock,
                                                !.version = version] IN
       IF version # ConsumerGroupAsyncCommandVersion
       THEN proc' = [proc EXCEPT ![p] =
                [cmd EXCEPT !.pc = "ret", !.res = "VersionMismatch",
                            !.reply = "NotifyFailed"]]
       ELSE proc' = [proc EXCEPT ![p] =
                [cmd EXCEPT !.pc = IF opcode = "StopConsumerGroupOpCode"
                                   THEN "st_lock" ELSE "sa_lock"]]
    /\ UNCHANGED <<factory, groups, mg, sessions, loop, spinsLeft, callers>>

\* lines 336-339: a message whose payload is no ConsumerGroupAsyncCommand is
\* dropped: no reply, no call of groupFunction
processAsyncGroupNotification_notParsed(p) ==
    /\ p \in callers
    /\ proc[p].pc = "idle"
    /\ opsLeft > 0
    /\ opsLeft' = opsLeft - 1
    /\ proc' = [proc EXCEPT ![p] =
           [IdleProc EXCEPT !.pc = "ret", !.op = "NotParsedCommand"]]
    /\ UNCHANGED <<factory, groups, mg, sessions, loop, spinsLeft, callers>>

\* ---------------------------------------- lockBefore / unlockAfter (314-330)
\* lockBefore: a nonexistent group cannot be locked; otherwise processLock.
\* Called first by stopConsumerGroup (233-236) and startConsumerGroup
\* (264-267), which return its error.
lockBefore(p, call, next) ==
    LET group == getGroup(proc[p].gid) IN
    IF group = NoGroup
    THEN /\ proc' = [proc EXCEPT ![p].pc = next]
         /\ UNCHANGED mg
    ELSE LET r == mgProcessLock(mg[group], proc[p].lock, TRUE) IN
         IF r.err = "ok"
         THEN /\ mg' = [mg EXCEPT ![group].lockedBy = r.lockedBy]
              /\ proc' = [proc EXCEPT ![p].pc = next]
         ELSE /\ proc' = [proc EXCEPT ![p] = Return(@, call, r.err)]
              /\ UNCHANGED mg

\* faulty variant: the group is left locked
unlockAfter_kept(p, call) ==
    /\ proc' = [proc EXCEPT ![p] = Return(@, call, "ok")]
    /\ UNCHANGED mg

\* unlockAfter: a nonexistent group cannot be unlocked; otherwise
\* processLock. Called last by stopConsumerGroup (252-256) and
\* startConsumerGroup (286-290), which then return.
unlockAfter(p, call) ==
    LET group == getGroup(proc[p].gid) IN
    IF group = NoGroup
    THEN /\ proc' = [proc EXCEPT ![p] = Return(@, call, "ok")]
         /\ UNCHANGED mg
    ELSE LET r == mgProcessLock(mg[group], proc[p].lock, FALSE) IN
         /\ mg' = [mg EXCEPT ![group].lockedBy = r.lockedBy]
         /\ proc' = [proc EXCEPT ![p] = Return(@, call, r.err)]

\* --------------------------------------------- stopConsumerGroup (229-257)
\* faulty variant: the error of lockBefore is ignored and the stop goes on
stopConsumerGroup_lockBefore_ignored(p) ==
    /\ p \in callers
    /\ proc[p].pc = "st_lock"
    /\ LET group == getGroup(proc[p].gid)
           r == mgProcessLock(mg[group], proc[p].lock, TRUE) IN
       /\ mg' = IF group = NoGroup THEN mg
                ELSE [mg EXCEPT ![group].lockedBy = r.lockedBy]
       /\ proc' = [proc EXCEPT ![p].pc = "st_stop"]
    /\ UNCHANGED <<factory, groups, sessions, loop, opsLeft, spinsLeft, callers>>

stopConsumerGroup_lockBefore(p) ==
    /\ p \in callers
    /\ proc[p].pc = "st_lock"
    /\ lockBefore(p, "stop", "st_stop")
    /\ UNCHANGED <<factory, groups, sessions, loop, opsLeft, spinsLeft, callers>>

\* faulty variant: the stop also cancels the context of the group's consume loop
stopConsumerGroup_stop_cancels(p) ==
    /\ p \in callers
    /\ proc[p].pc = "st_stop"
    /\ LET managedGrp == getGroup(proc[p].gid) IN
       IF managedGrp = NoGroup
       THEN /\ proc' = [proc EXCEPT ![p] = Return(@, "stop", "NotManaged")]
            /\ UNCHANGED <<mg, sessions, loop>>
       ELSE IF mgStopErr(mg[managedGrp]) # "ok"
       THEN /\ proc' = [proc EXCEPT ![p] =
                   Return(@, "stop", mgStopErr(mg[managedGrp]))]
            /\ UNCHANGED <<mg, sessions, loop>>
       ELSE /\ mg' = [mg EXCEPT ![managedGrp] = mgStop(@)]
            /\ sessions' = closeSession(sessions, mg[managedGrp].session)
            /\ loop' = [loop EXCEPT ![managedGrp].cancelled = TRUE]
            /\ proc' = [proc EXCEPT ![p].pc = "st_unlock"]
    /\ UNCHANGED <<factory, groups, opsLeft, spinsLeft, callers>>

\* faulty variant: the group is closed where it should be stopped
stopConsumerGroup_stop_closes(p) ==
    /\ p \in callers
    /\ proc[p].pc = "st_stop"
    /\ LET managedGrp == getGroup(proc[p].gid) IN
       IF managedGrp = NoGroup
       THEN /\ proc' = [proc EXCEPT ![p] = Return(@, "stop", "NotManaged")]
            /\ UNCHANGED <<mg, sessions>>
       ELSE IF mgStopErr(mg[managedGrp]) # "ok"
       THEN /\ proc' = [proc EXCEPT ![p] =
                   Return(@, "stop", mgStopErr(mg[managedGrp]))]
            /\ UNCHANGED <<mg, sessions>>
       ELSE /\ mg' = [mg EXCEPT ![managedGrp] = mgClosed(@)]
            /\ sessions' = closeSession(sessions, mg[managedGrp].session)
            /\ proc' = [proc EXCEPT ![p].pc = "st_unlock"]
    /\ UNCHANGED <<factory, groups, loop, opsLeft, spinsLeft, callers>>

\* lines 240-249: look the group up and stop it
stopConsumerGroup_stop(p) ==
    /\ p \in callers
    /\ proc[p].pc = "st_stop"
    /\ LET managedGrp == getGroup(proc[p].gid) IN
       IF managedGrp = NoGroup
       THEN /\ proc' = [proc EXCEPT ![p] = Return(@, "stop", "NotManaged")]
            /\ UNCHANGED <<mg, sessions>>
       ELSE IF mgStopErr(mg[managedGrp]) # "ok"
       THEN /\ proc' = [proc EXCEPT ![p] =
                   Return(@, "stop", mgStopErr(mg[managedGrp]))]
            /\ UNCHANGED <<mg, sessions>>
       ELSE /\ mg' = [mg EXCEPT ![managedGrp] = mgStop(@)]
            /\ sessions' = closeSession(sessions, mg[managedGrp].session)
            /\ proc' = [proc EXCEPT ![p].pc = "st_unlock"]
    /\ UNCHANGED <<factory, groups, loop, opsLeft, spinsLeft, callers>>

stopConsumerGroup_unlockAfter(p) ==
    /\ p \in callers
    /\ proc[p].pc = "st_unlock"
    /\ unlockAfter(p, "stop")
    /\ UNCHANGED <<factory, groups, sessions, loop, opsLeft, spinsLeft, callers>>

\* -------------------------------------------- startConsumerGroup (260-291)
startConsumerGroup_lockBefore(p) ==
    /\ p \in callers
    /\ proc[p].pc = "sa_lock"
    /\ lockBefore(p, "start", "sa_create")
    /\ UNCHANGED <<factory, groups, sessions, loop, opsLeft, spinsLeft, callers>>

\* faulty variant: the factory is asked for a session before the group is
\* looked up
startConsumerGroup_create_early(p) ==
    /\ p \in callers
    /\ proc[p].pc = "sa_create"
    /\ LET managedGrp == getGroup(proc[p].gid) IN
       \/ /\ proc' = [proc EXCEPT ![p] =
                 Return(@, "start", IF managedGrp = NoGroup THEN "NotManaged"
                                    ELSE "FactoryFailed")]
          /\ UNCHANGED sessions
       \/ /\ Len(sessions) < MaxSessions
          /\ sessions' = Append(sessions, createConsumerGroup(proc[p].gid))
          /\ IF managedGrp = NoGroup
             THEN proc' = [proc EXCEPT ![p] = Return(@, "start", "NotManaged")]
             ELSE proc' = [proc EXCEPT ![p].pc = "sa_start",
                                       ![p].grp = managedGrp,
                                       ![p].ses = Len(sessions) + 1]
    /\ UNCHANGED <<factory, groups, mg, loop, opsLeft, spinsLeft, callers>>

\* lines 270-280: look the group up and ask the factory for a new session
startConsumerGroup_create(p) ==
    /\ p \in callers
    /\ proc[p].pc = "sa_create"
    /\ LET managedGrp == getGroup(proc[p].gid) IN
       IF managedGrp = NoGroup
       THEN /\ proc' = [proc EXCEPT ![p] = Return(@, "start", "NotManaged")]
            /\ UNCHANGED sessions
       ELSE \/ /\ proc' = [proc EXCEPT ![p] = Return(@, "start", "FactoryFailed")]
               /\ UNCHANGED sessions
            \/ /\ Len(sessions) < MaxSessions
               /\ sessions' = Append(sessions, createConsumerGroup(proc[p].gid))
               /\ proc' = [proc EXCEPT ![p].pc = "sa_start",
                                       ![p].grp = managedGrp,
                                       ![p].ses = Len(sessions) + 1]
    /\ UNCHANGED <<factory, groups, mg, loop, opsLeft, spinsLeft, callers>>

\* line 283: managedGrp.start(group); what start reports is dropped
startConsumerGroup_start(p) ==
    /\ p \in callers
    /\ proc[p].pc = "sa_start"
    /\ mg' = [mg EXCEPT ![proc[p].grp] = mgStart(@, proc[p].ses)]
    /\ proc' = [proc EXCEPT ![p].pc = "sa_unlock"]
    /\ UNCHANGED <<factory, groups, sessions, loop, opsLeft, spinsLeft, callers>>

startConsumerGroup_unlockAfter(p) ==
    /\ p \in callers
    /\ proc[p].pc = "sa_unlock"
    /\ unlockAfter(p, "start")
    /\ UNCHANGED <<factory, groups, sessions, loop, opsLeft, spinsLeft, callers>>

\* ------------------------------------------------------ Reconfigure (117-145)
\* lines 119-121: the loop over m.groups starts; todo is the keys the map
\* holds now (keys added while the loop runs may or may not be visited)
Reconfigure(p, config) ==
    /\ p \in callers
    /\ proc[p].pc = "idle"
    /\ opsLeft > 0
    /\ opsLeft' = opsLeft - 1
    /\ proc' = [proc EXCEPT ![p] =
           [IdleProc EXCEPT !.pc = "rc_range", !.op = "Reconfigure",
                            !.cfg = config,
                            !.todo = {g \in GroupIds : IsManaged(g)}]]
    /\ UNCHANGED <<factory, groups, mg, sessions, loop, spinsLeft, callers>>

\* lines 121-122: the next key of m.groups, stopped with the internal token
\* and LockBefore; or the end of the loop
Reconfigure_range(p) ==
    /\ p \in callers
    /\ proc[p].pc = "rc_range"
    /\ LET left == {g \in GroupIds : IsManaged(g)} \ proc[p].seen IN
       \/ \E groupId \in left :
             proc' = [proc EXCEPT ![p].pc = "st_lock",
                                  ![p].gid = groupId,
                                  ![p].lock = [token |-> internalToken,
                                               lockBefore |-> TRUE,
                                               unlockAfter |-> FALSE],
                                  ![p].seen = @ \cup {groupId},
                                  ![p].managed = TRUE,
                                  ![p].snap = Snap(groupId),
                                  ![p].trace = Append(@, "stop")]
       \/ /\ left \cap proc[p].todo = {}
          /\ proc' = [proc EXCEPT ![p].pc = "rc_install"]
    /\ UNCHANGED <<factory, groups, mg, sessions, loop, opsLeft, spinsLeft, callers>>

\* faulty variant: the new factory is never assigned
Reconfigure_install_skipped(p) ==
    /\ p \in callers
    /\ proc[p].pc = "rc_install"
    /\ proc' = [proc EXCEPT ![p].pc = "rc_restart"]
    /\ UNCHANGED <<factory, groups, mg, sessions, loop, opsLeft, spinsLeft, callers>>

\* line 134: m.factory = &kafkaConsumerGroupFactoryImpl{brokers, config}
Reconfigure_install(p) ==
    /\ p \in callers
    /\ proc[p].pc = "rc_install"
    /\ factory' = proc[p].cfg
    /\ proc' = [proc EXCEPT ![p].pc = "rc_restart",
                            ![p].trace = Append(@, "install")]
    /\ UNCHANGED <<groups, mg, sessions, loop, opsLeft, spinsLeft, callers>>

\* lines 138-144: the next group of groupsToRestart, started with the
\* internal token and UnlockAfter; or return multiErr
Reconfigure_restart(p) ==
    /\ p \in callers
    /\ proc[p].pc = "rc_restart"
    /\ IF proc[p].restart # <<>>
       THEN proc' = [proc EXCEPT ![p].pc = "sa_lock",
                                 ![p].gid = Head(proc[p].restart),
                                 ![p].lock = [token |-> internalToken,
                                              lockBefore |-> FALSE,
                                              unlockAfter |-> TRUE],
                                 ![p].restart = Tail(@),
                                 ![p].managed = IsManaged(Head(proc[p].restart)),
                                 ![p].snap = Snap(Head(proc[p].restart)),
                                 ![p].trace = Append(@, "start")]
       ELSE proc' = [proc EXCEPT ![p] =
                Result(@, IF proc[p].errs = {} THEN "ok" ELSE "multiErr")]
    /\ UNCHANGED <<factory, groups, mg, sessions, loop, opsLeft, spinsLeft, callers>>

\* ----------------------------------------------- CloseConsumerGroup (181-198)
\* lines 184-188
CloseConsumerGroup_get(p, groupId) ==
    /\ p \in callers
    /\ proc[p].pc = "idle"
    /\ opsLeft > 0
    /\ opsLeft' = opsLeft - 1
    /\ LET managedGrp == getGroup(groupId) IN
       IF managedGrp = NoGroup
       THEN proc' = [proc EXCEPT ![p] =
                Result(Call("CloseConsumerGroup", groupId), "NotManaged")]
       ELSE proc' = [proc EXCEPT ![p] =
                [Call("CloseConsumerGroup", groupId)
                 EXCEPT !.pc = "cl_close", !.grp = managedGrp]]
    /\ UNCHANGED <<factory, groups, mg, sessions, loop, spinsLeft, callers>>

\* line 189, managedGrp.close(), first part: invalid on a Closed group
\* (190-191: the error is returned and the group stays in the map);
\* otherwise cancel the outer consume loop
CloseConsumerGroup_close(p) ==
    /\ p \in callers
    /\ proc[p].pc = "cl_close"
    /\ IF mg[proc[p].grp].state = "Closed"
       THEN /\ proc' = [proc EXCEPT ![p] = Result(@, "CloseFailed")]
            /\ UNCHANGED loop
       ELSE /\ loop' = [loop EXCEPT ![proc[p].grp].cancelled = TRUE]
            /\ proc' = [proc EXCEPT ![p].pc = "cl_wait"]
    /\ UNCHANGED <<factory, groups, mg, sessions, opsLeft, spinsLeft, callers>>

\* faulty variant: close does not wait for the released signal
CloseConsumerGroup_released_nowait(p) ==
    /\ p \in callers
    /\ proc[p].pc = "cl_wait"
    /\ proc' = [proc EXCEPT ![p].pc = "cl_fin"]
    /\ UNCHANGED <<factory, groups, mg, sessions, loop, opsLeft, spinsLeft, callers>>

\* faulty variant: the released signal is seen but not taken, so it can be
\* seen again
CloseConsumerGroup_released_kept(p) ==
    /\ p \in callers
    /\ proc[p].pc = "cl_wait"
    /\ loop[proc[p].grp].pc = "release"
    /\ proc' = [proc EXCEPT ![p].pc = "cl_fin"]
    /\ UNCHANGED <<factory, groups, mg, sessions, loop, opsLeft, spinsLeft, callers>>

\* managedGrp.close(), second part: wait for the released signal of the
\* consume loop (the send of line 428)
CloseConsumerGroup_released(p) ==
    /\ p \in callers
    /\ proc[p].pc = "cl_wait"
    /\ loop[proc[p].grp].pc = "release"
    /\ loop' = [loop EXCEPT ![proc[p].grp].pc = "done"]
    /\ proc' = [proc EXCEPT ![p].pc = "cl_fin"]
    /\ UNCHANGED <<factory, groups, mg, sessions, opsLeft, spinsLeft, callers>>

\* managedGrp.close(), last part: close the session and the persistent
\* error channel, go to Closed
CloseConsumerGroup_closed(p) ==
    /\ p \in callers
    /\ proc[p].pc = "cl_fin"
    /\ sessions' = closeSession(sessions, mg[proc[p].grp].session)
    /\ mg' = [mg EXCEPT ![proc[p].grp] = mgClosed(@)]
    /\ proc' = [proc EXCEPT ![p].pc = "cl_remove"]
    /\ UNCHANGED <<factory, groups, loop, opsLeft, spinsLeft, callers>>

\* lines 195-197: m.removeGroup(groupId); return nil
CloseConsumerGroup_remove(p) ==
    /\ p \in callers
    /\ proc[p].pc = "cl_remove"
    /\ removeGroup(proc[p].gid)
    /\ proc' = [proc EXCEPT ![p] = Result(@, "ok")]
    /\ UNCHANGED <<factory, mg, sessions, loop, opsLeft, spinsLeft, callers>>

\* ------------------------------------------------- consume loop (425-447)
\* line 433 and consume (219-225): look the group up by its id; a missing
\* group is an error, otherwise the call goes on in managedGrp.consume
Loop_consume(i) ==
    /\ i <= Len(loop)
    /\ loop[i].pc = "call"
    /\ LET managedGrp == getGroup(mg[i].gid) IN
       IF managedGrp = NoGroup
       THEN /\ spinsLeft > 0
            /\ spinsLeft' = spinsLeft - 1
            /\ loop' = [loop EXCEPT ![i].pc = "send", ![i].err = "nonexistent"]
       ELSE /\ loop' = [loop EXCEPT ![i].pc = "wait", ![i].tgt = managedGrp]
            /\ UNCHANGED spinsLeft
    /\ UNCHANGED <<factory, groups, mg, sessions, proc, opsLeft, callers>>

\* lines 437-445: errorCh <- consumeErr, which blocks while errorCh is full
Loop_send(i) ==
    /\ i <= Len(loop)
    /\ loop[i].pc = "send"
    /\ loop[i].handlerErrors < handlerErrorChannelSize
    /\ loop' = [loop EXCEPT ![i] =
           Loop_next([@ EXCEPT !.handlerErrors = @ + 1], loop[i].err)]
    /\ UNCHANGED <<factory, groups, mg, sessions, proc, opsLeft, spinsLeft, callers>>

\* managedGrp.consume, steps 1-2: return when the outer context is cancelled
\* or the group is Closed, park while Stopped, take the session when Running
mgConsume_wait(i) ==
    /\ i <= Len(loop)
    /\ loop[i].pc = "wait"
    /\ IF loop[i].cancelled
       THEN loop' = [loop EXCEPT ![i] = Loop_next(@, "nil")]
       ELSE IF mg[loop[i].tgt].state = "Closed"
       THEN loop' = [loop EXCEPT ![i] = Loop_next(@, "closed")]
       ELSE /\ mg[loop[i].tgt].state = "Running"
            /\ loop' = [loop EXCEPT ![i].pc = "consuming",
                                    ![i].ses = mg[loop[i].tgt].session]
    /\ UNCHANGED <<factory, groups, mg, sessions, proc, opsLeft, spinsLeft, callers>>

\* managedGrp.consume, steps 3-4: session.consume returns when the outer
\* context is cancelled (back to the caller) or when the session was closed
\* (back to step 1)
mgConsume_session(i) ==
    /\ i <= Len(loop)
    /\ loop[i].pc = "consuming"
    /\ IF loop[i].cancelled
       THEN loop' = [loop EXCEPT ![i] = Loop_next(@, "nil")]
       ELSE /\ sessions[loop[i].ses].closed
            /\ loop' = [loop EXCEPT ![i].pc = "wait", ![i].ses = NoSession]
    /\ UNCHANGED <<factory, groups, mg, sessions, proc, opsLeft, spinsLeft, callers>>

Next ==
    \/ \E p \in Procs, g \in GroupIds : StartConsumerGroup_create(p, g)
    \/ \E p \in Procs : StartConsumerGroup_set(p)
    \/ \E p \in Procs, g \in GroupIds : CloseConsumerGroup_get(p, g)
    \/ \E p \in Procs : CloseConsumerGroup_close(p)
    \/ \E p \in Procs : CloseConsumerGroup_released(p)
    \/ \E p \in Procs : CloseConsumerGroup_closed(p)
    \/ \E p \in Procs : CloseConsumerGroup_remove(p)
    \/ \E p \in Procs, config \in 1..MaxConfig : Reconfigure(p, config)
    \/ \E p \in Procs : Reconfigure_range(p)
    \/ \E p \in Procs : Reconfigure_install(p)
    \/ \E p \in Procs : Reconfigure_restart(p)
    \/ \E p \in Procs,
          opcode \in {"StopConsumerGroupOpCode", "StartConsumerGroupOpCode"},
          version \in Versions, g \in GroupIds, lock \in CommandLocks :
          processAsyncGroupNotification(p, opcode, version, g, lock)
    \/ \E p \in Procs : processAsyncGroupNotification_notParsed(p)
    \/ \E p \in Procs : stopConsumerGroup_lockBefore(p)
    \/ \E p \in Procs : stopConsumerGroup_stop(p)
    \/ \E p \in Procs : stopConsumerGroup_unlockAfter(p)
    \/ \E p \in Procs : startConsumerGroup_lockBefore(p)
    \/ \E p \in Procs : startConsumerGroup_create(p)
    \/ \E p \in Procs : startConsumerGroup_start(p)
    \/ \E p \in Procs : startConsumerGroup_unlockAfter(p)
    \/ \E p \in Procs : Returned(p)
    \/ \E i \in 1..MaxGroups : Loop_consume(i)
    \/ \E i \in 1..MaxGroups : Loop_send(i)
    \/ \E i \in 1..MaxGroups : mgConsume_wait(i)
    \/ \E i \in 1..MaxGroups : mgConsume_session(i)

\* one caller thread at a time, beside the consume loops
Spec == Init /\ [][Next]_vars

\* two caller threads
InitConc ==
    /\ factory = InitialConfig
    /\ groups = [g \in GroupIds |-> NoGroup]
    /\ mg = <<>>
    /\ sessions = <<>>
    /\ loop = <<>>
    /\ proc = [p \in Procs |-> IdleProc]
    /\ opsLeft = MaxConcOps
    /\ spinsLeft = MaxSpins
    /\ callers = Procs

SpecConc == InitConc /\ [][Next]_vars

\* two caller threads on a manager whose StartConsumerGroup("g1") has
\* returned: g1 is registered and Running on the first session, its consume
\* loop is about to make its first consume call
InitStarted ==
    /\ factory = InitialConfig
    /\ groups = [g \in GroupIds |-> IF g = "g1" THEN 1 ELSE NoGroup]
    /\ sessions = <<[gid |-> "g1", cfg |-> InitialConfig, closed |-> FALSE]>>
    /\ mg = <<createManagedGroup("g1", 1)>>
    /\ loop = <<newLoop>>
    /\ proc = [p \in Procs |-> IdleProc]
    /\ opsLeft = MaxConcOps
    /\ spinsLeft = MaxSpins
    /\ callers = Procs

SpecStarted == InitStarted /\ [][Next]_vars

\* Close under fair scheduling: two caller threads that start and close
\* groups, and the consume loops, with nobody reading the error streams. A
\* loop can fail as often as its error channel takes errors, and once more.
InitClose ==
    /\ factory = InitialConfig
    /\ groups = [g \in GroupIds |-> NoGroup]
    /\ mg = <<>>
    /\ sessions = <<>>
    /\ loop = <<>>
    /\ proc = [p \in Procs |-> IdleProc]
    /\ opsLeft = MaxCloseOps
    /\ spinsLeft = MaxGroups * (handlerErrorChannelSize + 1)
    /\ callers = Procs

\* the steps of a caller thread inside StartConsumerGroup and
\* CloseConsumerGroup, and its return
CallerStep(p) ==
    \/ StartConsumerGroup_set(p)
    \/ CloseConsumerGroup_close(p)
    \/ CloseConsumerGroup_released(p)
    \/ CloseConsumerGroup_closed(p)
    \/ CloseConsumerGroup_remove(p)
    \/ Returned(p)

\* the steps of the goroutine of lines 425-447
LoopStep(i) ==
    \/ Loop_consume(i)
    \/ Loop_send(i)
    \/ mgConsume_wait(i)
    \/ mgConsume_session(i)

NextClose ==
    \/ \E p \in Procs, g \in GroupIds : StartConsumerGroup_create(p, g)
    \/ \E p \in Procs, g \in GroupIds : CloseConsumerGroup_get(p, g)
    \/ \E p \in Procs : CallerStep(p)
    \/ \E i \in 1..MaxGroups : LoopStep(i)

\* every thread and goroutine that can take a step takes one eventually; a
\* consume call whose context is cancelled returns (mgConsume_wait,
\* mgConsume_session are steps of the loop)
FairClose ==
    /\ \A p \in Procs : WF_vars(CallerStep(p))
    /\ \A i \in 1..MaxGroups : WF_vars(LoopStep(i))

SpecClose == InitClose /\ [][NextClose]_vars /\ FairClose
\* ==================================================================== claims
Loops == 1..Len(loop)

\* the managed group registered under groupId
Managed(groupId) == mg[getGroup(groupId)]

\* C1: StartConsumerGroup called while groupId is already in the registry
\* fails with AlreadyManaged and changes nothing: it returns that error
\* without having created a session or touched the registry.
C1_StartOnManagedFails ==
    \A p \in callers :
        (proc[p].op = "StartConsumerGroup" /\ proc[p].managed)
            => (proc[p].pc = "ret" /\ proc[p].res = "AlreadyManaged")

\* C2: one outward consume call spans stop/start cycles. A consume call on a
\* managed group returns only when its context is cancelled or the group is
\* Closed; the context is cancelled by nothing but a CloseConsumerGroup of
\* that group; and a parked call that resumes takes the group's current,
\* open session.
CloseInProgress(i) ==
    \E p \in callers :
        /\ proc[p].op = "CloseConsumerGroup"
        /\ proc[p].grp = i
        /\ proc[p].pc \in {"cl_wait", "cl_fin", "cl_remove", "ret"}

InStopStart(p) ==
    proc[p].pc \in {"st_lock", "st_stop", "st_unlock",
                    "sa_lock", "sa_create", "sa_start", "sa_unlock"}

C3_ErrorsSurviveStopStart ==
    [][/\ \A p \in callers :
            (InStopStart(p) /\ proc'[p] # proc[p])
                => /\ \A g \in GroupIds : Errors(g)' = Errors(g)
                   /\ \A i \in 1..Len(mg) :
                         mg'[i].errorsClosed = mg[i].errorsClosed
       /\ \A i \in 1..Len(mg) :
            mg'[i].errorsClosed # mg[i].errorsClosed
                => \E p \in callers :
                      /\ proc[p].op = "CloseConsumerGroup"
                      /\ proc[p].grp = i
                      /\ proc[p].pc = "cl_fin"
                      /\ proc'[p].pc = "cl_remove"
      ]_vars

\* C3 witness: a start command has returned success on a group that was
\* Stopped when the command began; the group is Running again under the
\* same registry entry and its persistent error channel is open.
C3_Witness ==
    \E p \in callers :
        /\ proc[p].pc = "ret"
        /\ proc[p].op = "StartConsumerGroupOpCode"
        /\ proc[p].res = "ok"
        /\ proc[p].snap.state = "Stopped"
        /\ IsManaged(proc[p].gid)
        /\ Managed(proc[p].gid).state = "Running"
        /\ Managed(proc[p].gid).errorsClosed = 0

\* C4: within one Reconfigure call every stop comes before every start, the
\* new FactoryConfig is installed after the last stop and before the first
\* start, and every session its starts create is built from the new
\* FactoryConfig.
Rank(e) == IF e = "stop" THEN 0 ELSE IF e = "install" THEN 1 ELSE 2

C4_StopsInstallStarts ==
    \A p \in callers :
        proc[p].op = "Reconfigure"
            => /\ \A k, l \in 1..Len(proc[p].trace) :
                     k < l => Rank(proc[p].trace[k]) <= Rank(proc[p].trace[l])
               /\ (\E k \in 1..Len(proc[p].trace) : proc[p].trace[k] = "start")
                     => Cardinality({k \in 1..Len(proc[p].trace) :
                                        proc[p].trace[k] = "install"}) = 1
               /\ proc[p].pc \in {"sa_lock", "sa_create", "sa_start", "sa_unlock"}
                     => factory = proc[p].cfg
               /\ proc[p].pc \in {"sa_start", "sa_unlock"}
                     => sessions[proc[p].ses].cfg = proc[p].cfg

\* C4 witness: a Reconfigure that stopped two groups, installed the new
\* FactoryConfig and has just created the session of its first restart.
C4_Witness ==
    \E p \in callers :
        /\ proc[p].op = "Reconfigure"
        /\ proc[p].pc = "sa_start"
        /\ proc[p].trace = <<"stop", "stop", "install", "start">>
        /\ sessions[proc[p].ses].cfg = proc[p].cfg
        /\ proc[p].cfg # InitialConfig

\* C5: when Reconfigure returns, every registered group that is Running has
\* a session created from the new FactoryConfig, except the groups whose
\* stop inside that Reconfigure failed.
StopFailedIn(r, g) ==
    \E c \in r.calls : c.call = "stop" /\ c.gid = g /\ c.err # "ok"

C5_NoGroupOnOldConfig ==
    [][\A p \in callers :
          (proc[p].op = "Reconfigure" /\ proc[p].pc = "rc_restart"
              /\ proc'[p].pc = "ret")
              => \A g \in GroupIds :
                    (IsManaged(g) /\ Managed(g).state = "Running")
                        => \/ sessions[Managed(g).session].cfg = proc[p].cfg
                           \/ StopFailedIn(proc[p], g)
      ]_vars

\* C6: a group whose stop fails in Reconfigure is not restarted by it and
\* its session, state and lock token stay as they were when the stop was
\* issued, while the FactoryConfig is still replaced and every group that
\* was stopped is restarted.
InStop(p) == proc[p].pc \in {"st_lock", "st_stop", "st_unlock"}

C6_FailedStopLeavesGroup ==
    [][\A p \in callers :
          /\ (proc[p].op = "Reconfigure" /\ InStop(p)
                /\ proc'[p].pc = "rc_range" /\ proc'[p].errs # proc[p].errs)
                => /\ proc'[p].restart = proc[p].restart
                   /\ IsManaged(proc[p].gid)'
                         => /\ Managed(proc[p].gid)'.state = proc[p].snap.state
                            /\ Managed(proc[p].gid)'.session = proc[p].snap.session
                            /\ Managed(proc[p].gid)'.lockedBy = proc[p].snap.lockedBy
          /\ (proc[p].op = "Reconfigure" /\ proc[p].pc = "rc_restart"
                /\ proc'[p].pc = "ret")
                => /\ factory = proc[p].cfg
                   /\ \A c \in proc[p].calls :
                         c.call = "stop"
                            => (c.err = "ok"
                                  <=> \E d \in proc[p].calls :
                                         d.call = "start" /\ d.gid = c.gid)
      ]_vars

\* C7: Reconfigure returns success exactly when none of the stops and starts
\* it issued failed; otherwise its combined error holds the error of every
\* failed stop and start; and a failure never aborts the remaining groups:
\* every registered group is stopped and every stopped group is started.
Gids(cs) == {c.gid : c \in cs}

C7_ReconfigureAggregates ==
    \A p \in callers :
        (proc[p].op = "Reconfigure" /\ proc[p].pc = "ret")
            => /\ proc[p].res = "ok" <=> (\A c \in proc[p].calls : c.err = "ok")
               /\ proc[p].errs = {c \in proc[p].calls : c.err # "ok"}
               /\ proc[p].todo
                     \subseteq Gids({c \in proc[p].calls : c.call = "stop"})
               /\ Gids({c \in proc[p].calls : c.call = "stop" /\ c.err = "ok"})
                     = Gids({c \in proc[p].calls : c.call = "start"})

\* C7 witness: a Reconfigure has returned a combined error that holds a
\* failed stop of one group and a failed start of another.
C7_Witness ==
    \E p \in callers :
        /\ proc[p].op = "Reconfigure"
        /\ proc[p].pc = "ret"
        /\ proc[p].res = "multiErr"
        /\ \E c, d \in proc[p].errs :
              c.call = "stop" /\ d.call = "start" /\ c.gid # d.gid

\* C8: lock exclusion. The lockBefore step of a stop or start command on a
\* registered group: when the group is locked with another token the command
\* fails with LockConflict and nothing of the manager changes; when it is
\* unlocked or locked with the same token, the token is stored, nothing else
\* changes, and the command goes on to its operation.
LockConflictReturned(r, s) ==
    IF r.op = "Reconfigure"
    THEN /\ s.pc = "rc_range"
         /\ [call |-> "stop", gid |-> r.gid, err |-> "LockConflict"] \in s.errs
         /\ s.restart = r.restart
    ELSE /\ s.pc = "ret"
         /\ s.res = "LockConflict"
         /\ s.reply = "NotifyFailed"

C8_LockExclusion ==
    [][\A p \in callers :
          (proc[p].pc \in {"st_lock", "sa_lock"} /\ proc[p].lock.lockBefore
              /\ IsManaged(proc[p].gid) /\ proc'[p] # proc[p])
              => IF Managed(proc[p].gid).lockedBy
                       \notin {NoToken, proc[p].lock.token}
                 THEN /\ UNCHANGED <<factory, groups, mg, sessions>>
                      /\ LockConflictReturned(proc[p], proc'[p])
                 ELSE /\ mg' = [mg EXCEPT ![getGroup(proc[p].gid)].lockedBy =
                                               proc[p].lock.token]
                      /\ proc'[p].pc = IF proc[p].pc = "st_lock" THEN "st_stop"
                                       ELSE "sa_create"
                      /\ UNCHANGED <<factory, groups, sessions>>
      ]_vars

\* C8 witness: a command with lockBefore and token A has been answered with
\* LockConflict on a group an external token B holds; the group is as it was.
C8_Witness ==
    \E p \in callers :
        /\ proc[p].pc = "ret"
        /\ proc[p].res = "LockConflict"
        /\ proc[p].lock.lockBefore
        /\ proc[p].snap.lockedBy \in Tokens \ {proc[p].lock.token}
        /\ IsManaged(proc[p].gid)
        /\ Managed(proc[p].gid) = proc[p].snap

\* C9: the unlockAfter step that ends a stop or start command with
\* unlockAfter on a registered group clears the group's lock token; and a
\* start command with unlockAfter that returns success on a group that was
\* Stopped leaves it Running and unlocked.
C9_UnlockAfterClears ==
    [][\A p \in callers :
          /\ (proc[p].pc \in {"st_unlock", "sa_unlock"}
                /\ proc[p].lock.unlockAfter
                /\ IsManaged(proc[p].gid) /\ proc'[p] # proc[p])
                => Managed(proc[p].gid)'.lockedBy = NoToken
          /\ (proc[p].op = "StartConsumerGroupOpCode" /\ proc[p].pc # "ret"
                /\ proc'[p].pc = "ret" /\ proc'[p].res = "ok"
                /\ proc[p].lock.unlockAfter
                /\ proc[p].snap.state = "Stopped" /\ IsManaged(proc[p].gid)')
                => /\ Managed(proc[p].gid)'.state = "Running"
                   /\ Managed(proc[p].gid)'.lockedBy = NoToken
      ]_vars

\* C9 witness: a start command with token T and unlockAfter has returned
\* success on a group that was Stopped and locked with T; the group is
\* Running and unlocked.
C9_Witness ==
    \E p \in callers :
        /\ proc[p].pc = "ret"
        /\ proc[p].op = "StartConsumerGroupOpCode"
        /\ proc[p].res = "ok"
        /\ proc[p].lock.unlockAfter
        /\ proc[p].lock.token \in Tokens
        /\ proc[p].snap.state = "Stopped"
        /\ proc[p].snap.lockedBy = proc[p].lock.token
        /\ Managed(proc[p].gid).state = "Running"
        /\ Managed(proc[p].gid).lockedBy = NoToken

\* C10: a control command whose version differs from the compiled-in one is
\* answered with NotifyFailed in one step that invokes no operation and
\* leaves the registry, every group, every session and the FactoryConfig
\* unchanged.
OpCodes == {"StopConsumerGroupOpCode", "StartConsumerGroupOpCode"}

C10_VersionGate ==
    [][\A p \in callers :
          (proc'[p] # proc[p] /\ proc'[p].op \in OpCodes
              /\ proc'[p].version # ConsumerGroupAsyncCommandVersion)
              => /\ proc[p].pc = "idle" => /\ proc'[p].pc = "ret"
                                           /\ proc'[p].reply = "NotifyFailed"
                                           /\ proc'[p].res = "VersionMismatch"
                 /\ proc[p].pc # "idle" => proc'[p] = IdleProc
                 /\ UNCHANGED <<factory, groups, mg, sessions, loop>>
      ]_vars

\* C10 witness: a command of another version on a registered group has been
\* answered with NotifyFailed; the group is as it was.
C10_Witness ==
    \E p \in callers :
        /\ proc[p].pc = "ret"
        /\ proc[p].op \in OpCodes
        /\ proc[p].version # ConsumerGroupAsyncCommandVersion
        /\ proc[p].reply = "NotifyFailed"
        /\ proc[p].managed
        /\ IsManaged(proc[p].gid)
        /\ Managed(proc[p].gid) = proc[p].snap

\* C11: every control command that decodes is answered exactly once, when
\* the handler returns: nothing is replied while the operation runs, the
\* reply is NotifySuccess exactly when the dispatched operation returned no
\* error and NotifyFailed otherwise; a payload that does not decode is
\* answered with nothing, invokes no operation and changes nothing.
InOperation(r) == r.pc \in {"st_lock", "st_stop", "st_unlock",
                            "sa_lock", "sa_create", "sa_start", "sa_unlock"}

C11_OneReply ==
    [][\A p \in callers :
          /\ (proc'[p].op \in OpCodes /\ proc'[p].pc # "ret")
                => (InOperation(proc'[p]) /\ proc'[p].reply = "none")
          /\ (proc'[p].op \in OpCodes /\ proc'[p].pc = "ret"
                /\ proc[p].pc # "ret")
                => /\ proc'[p].reply \in {"NotifySuccess", "NotifyFailed"}
                   /\ proc'[p].reply = "NotifySuccess" <=> proc'[p].res = "ok"
                   /\ proc'[p].res # "none"
                   /\ proc'[p].res # "VersionMismatch" <=> InOperation(proc[p])
          /\ (proc'[p].op = "NotParsedCommand" /\ proc'[p] # proc[p])
                => /\ proc[p].pc = "idle"
                   /\ proc'[p].pc = "ret"
                   /\ proc'[p].reply = "none"
                   /\ UNCHANGED <<factory, groups, mg, sessions, loop>>
      ]_vars

\* C11 witness: a stop command on a registered Running group was answered
\* with NotifySuccess and the group is Stopped.
C11_Witness ==
    \E p \in callers :
        /\ proc[p].pc = "ret"
        /\ proc[p].op = "StopConsumerGroupOpCode"
        /\ proc[p].reply = "NotifySuccess"
        /\ proc[p].res = "ok"
        /\ proc[p].snap.state = "Running"
        /\ Managed(proc[p].gid).state = "Stopped"

\* C12: in every reachable state a group id in the registry maps to a
\* managed group that is Running or Stopped: getGroup, IsManaged and Errors
\* never return a Closed managed group.
C12_NoClosedGroupRegistered ==
    \A g \in GroupIds :
        IsManaged(g) => Managed(g).state \in {"Running", "Stopped"}

\* C13: the persistent error channel of a group is closed at most once, and
\* it is closed exactly when the group is Closed, also when two
\* CloseConsumerGroup calls on the same group run concurrently.
C13_ErrorsClosedOnce ==
    \A i \in 1..Len(mg) :
        /\ mg[i].errorsClosed <= 1
        /\ mg[i].errorsClosed = 1 <=> mg[i].state = "Closed"

\* C13 witness: two CloseConsumerGroup calls hold the same managed group,
\* both went past the check of its state, and the group is Closed with its
\* channel closed once.
C13_Witness ==
    \E p, q \in callers :
        /\ p # q
        /\ proc[p].op = "CloseConsumerGroup"
        /\ proc[q].op = "CloseConsumerGroup"
        /\ proc[p].grp = proc[q].grp
        /\ proc[p].pc \in {"cl_remove", "ret"}
        /\ proc[p].res \in {"none", "ok"}
        /\ proc[q].pc = "cl_wait"
        /\ mg[proc[p].grp].state = "Closed"
        /\ mg[proc[p].grp].errorsClosed = 1

\* C14: closing a group returns only after its consume loop has exited: a
\* CloseConsumerGroup call is past its wait, or has returned success, only
\* when the loop has given its released signal and ended, and the step of the
\* call that closes the session comes after that signal.
C14_CloseAfterLoopExit ==
    [][\A p \in callers :
          proc'[p].op = "CloseConsumerGroup"
             => /\ (proc'[p].pc \in {"cl_fin", "cl_remove"}
                      \/ (proc'[p].pc = "ret" /\ proc'[p].res = "ok"))
                      => loop'[proc'[p].grp].pc = "done"
                /\ (proc'[p] # proc[p] /\ sessions' # sessions)
                      => /\ proc[p].pc = "cl_fin"
                         /\ loop[proc[p].grp].pc = "done"
      ]_vars

\* C14 witness: CloseConsumerGroup has returned success on a group that was
\* Running: its loop has ended and its session is closed.
C14_Witness ==
    \E p \in callers :
        /\ proc[p].op = "CloseConsumerGroup"
        /\ proc[p].pc = "ret"
        /\ proc[p].res = "ok"
        /\ proc[p].snap.state = "Running"
        /\ loop[proc[p].grp].pc = "done"
        /\ sessions[proc[p].snap.session].closed

\* C15: session exclusivity. No two consume operations run on the same
\* session; a loop holds a session only while it consumes on it; and while
\* a group is Stopped its loop takes no session: a session.consume still in
\* flight is on the session the stop has closed.
C15_SessionExclusive ==
    /\ \A i, j \in Loops :
          (i # j /\ loop[i].pc = "consuming" /\ loop[j].pc = "consuming")
              => loop[i].ses # loop[j].ses
    /\ \A i \in Loops :
          /\ loop[i].pc # "consuming" => loop[i].ses = NoSession
          /\ (loop[i].pc = "consuming" /\ mg[loop[i].tgt].state = "Stopped")
                => sessions[loop[i].ses].closed

\* C16: a StartConsumerGroup whose factory call fails returns the factory
\* error in one step that changes nothing of the manager: no session, no
\* managed group (and so no persistent error channel), no consume loop, and
\* a groupId that was not registered is still not registered.
C16_FactoryFailureLeavesNothing ==
    [][\A p \in callers :
          (proc'[p].op = "StartConsumerGroup" /\ proc'[p].res = "FactoryFailed"
              /\ proc'[p] # proc[p])
              => /\ proc[p].pc = "idle"
                 /\ proc'[p].pc = "ret"
                 /\ UNCHANGED <<factory, groups, mg, sessions, loop>>
                 /\ ~proc'[p].managed => groups'[proc'[p].gid] = NoGroup
      ]_vars

\* C16 witness: with another group registered and Running, StartConsumerGroup
\* returned the factory error for a groupId that is not registered and for
\* which no managed group or loop exists.
C16_Witness ==
    \E p \in callers :
        /\ proc[p].op = "StartConsumerGroup"
        /\ proc[p].pc = "ret"
        /\ proc[p].res = "FactoryFailed"
        /\ ~IsManaged(proc[p].gid)
        /\ Errors(proc[p].gid) = NoGroup
        /\ \A i \in 1..Len(mg) : mg[i].gid # proc[p].gid
        /\ Len(loop) = Len(mg)
        /\ \E g \in GroupIds : IsManaged(g) /\ Managed(g).state = "Running"

\* C17: CloseConsumerGroup and the stop and start commands (of the compiled-in
\* version, with any CommandLock) on a groupId that is not in the registry
\* return NotManaged, and no step of them changes the registry, a managed
\* group, a session, a loop or the FactoryConfig.
C17_NotManaged ==
    [][\A p \in callers :
          (proc'[p].op \in OpCodes \cup {"CloseConsumerGroup"}
              /\ ~proc'[p].managed /\ proc'[p] # proc[p]
              /\ (proc'[p].op \in OpCodes
                    => proc'[p].version = ConsumerGroupAsyncCommandVersion))
              => /\ UNCHANGED <<factory, groups, mg, sessions, loop>>
                 /\ proc'[p].pc = "ret"
                       => /\ proc'[p].res = "NotManaged"
                          /\ proc'[p].op \in OpCodes
                                => proc'[p].reply = "NotifyFailed"
      ]_vars

\* C17 witness: with another group registered, a start command carrying a
\* token with lockBefore and unlockAfter on an unregistered groupId has
\* returned NotManaged, and no session exists for that groupId.
C17_Witness ==
    \E p \in callers :
        /\ proc[p].op = "StartConsumerGroupOpCode"
        /\ proc[p].pc = "ret"
        /\ proc[p].res = "NotManaged"
        /\ proc[p].lock.lockBefore
        /\ proc[p].lock.unlockAfter
        /\ ~IsManaged(proc[p].gid)
        /\ \A k \in 1..Len(sessions) : sessions[k].gid # proc[p].gid
        /\ \E g \in GroupIds : IsManaged(g)

\* C18: registry access is race-free. Reconfigure reads m.groups without
\* groupLock for as long as its range loop runs (lines 120-132) and writes
\* m.factory without it (134); startConsumerGroup reads m.factory without it
\* (276). Race freedom says that no thread writes the map while another is
\* inside that range loop, and that no state has one thread about to write
\* m.factory while another is about to read it.
RangingGroups(p) ==
    /\ proc[p].op = "Reconfigure"
    /\ proc[p].pc \in {"rc_range", "st_lock", "st_stop", "st_unlock"}

WritesFactory(p) == proc[p].op = "Reconfigure" /\ proc[p].pc = "rc_install"

ReadsFactory(p) == proc[p].pc = "sa_create" /\ IsManaged(proc[p].gid)

C18_RegistryRaceFree ==
    [][/\ groups' # groups => \A p \in callers : ~RangingGroups(p)
       /\ \A p, q \in callers :
             p # q => ~(WritesFactory(p) /\ ReadsFactory(q))
      ]_vars

\* C19: a start command on a registered group that is Running is a no-op
\* that reports an error: when it has returned, the result is an error, the
\* reply is NotifyFailed, and the group is Running on the session it had.
C19_StartOnRunningFails ==
    \A p \in callers :
        (proc[p].op = "StartConsumerGroupOpCode" /\ proc[p].pc = "ret"
            /\ proc[p].managed /\ proc[p].snap.state = "Running")
            => /\ proc[p].res # "ok"
               /\ proc[p].reply = "NotifyFailed"
               /\ IsManaged(proc[p].gid)
               /\ Managed(proc[p].gid).state = "Running"
               /\ Managed(proc[p].gid).session = proc[p].snap.session

\* C20: the managed group is registered before its consume loop makes its
\* first consume call: the loop of a group whose StartConsumerGroup has not
\* yet reached setGroup never gets the nonexistent-groupId error.
BeingStarted(i) ==
    \E p \in callers :
        /\ proc[p].op = "StartConsumerGroup"
        /\ proc[p].pc = "sc_set"
        /\ proc[p].grp = i

C20_RegisteredBeforeConsume ==
    \A i \in Loops : BeingStarted(i) => loop[i].err # "nonexistent"

\* C21: error propagation in the consume loop. An error is put on the
\* loop's error channel only by the send of an error that is not the
\* closed-group sentinel; a consume call that returns the sentinel ends the
\* loop with nothing sent; and after a send the loop calls consume again,
\* unless its context is cancelled, in which case it ends.
C21_LoopErrors ==
    [][\A i \in Loops :
          /\ loop'[i].handlerErrors # loop[i].handlerErrors
                => /\ loop[i].pc = "send"
                   /\ loop[i].err \notin {"nil", "closed"}
                   /\ loop'[i].handlerErrors = loop[i].handlerErrors + 1
          /\ (loop[i].pc = "send" /\ loop'[i].pc # "send")
                => /\ loop'[i].handlerErrors = loop[i].handlerErrors + 1
                   /\ loop'[i].pc = IF loop[i].cancelled THEN "release"
                                    ELSE "call"
          /\ (loop[i].pc \in {"wait", "consuming"} /\ ~loop[i].cancelled
                /\ mg[loop[i].tgt].state = "Closed"
                /\ loop'[i].pc \notin {"wait", "consuming"})
                => /\ loop'[i].pc = "release"
                   /\ loop'[i].handlerErrors = loop[i].handlerErrors
      ]_vars

\* C21 witness: a loop whose context is not cancelled has sent one error,
\* called consume again, and then ended on the sentinel with nothing more
\* sent.
C21_Witness ==
    \E i \in Loops :
        /\ ~loop[i].cancelled
        /\ loop[i].handlerErrors = 1
        /\ loop[i].pc = "release"
        /\ loop[i].errorChClosed

\* C22: when Reconfigure has returned, no registered group is locked with
\* the internal token, whichever of its stops and starts failed.
C22_InternalLockReleased ==
    \A p \in callers :
        (proc[p].op = "Reconfigure" /\ proc[p].pc = "ret")
            => \A groupId \in GroupIds :
                  IsManaged(groupId)
                     => Managed(groupId).lockedBy # internalToken

\* C23: no session leaks. When no operation is in progress, every session
\* the factory created and that is not closed is the current session of
\* exactly one registered group.
C23_NoSessionLeak ==
    (\A p \in callers : proc[p].pc = "idle")
        => \A s \in 1..Len(sessions) :
              ~sessions[s].closed
                 => Cardinality({groupId \in GroupIds :
                                    /\ IsManaged(groupId)
                                    /\ Managed(groupId).session = s}) = 1

\* C24: close terminates. Under fair scheduling, with nobody reading the
\* error streams, every CloseConsumerGroup call that has reached the close
\* of its group returns, a second call on the same group included.
InClose(p) == proc[p].pc \in {"cl_close", "cl_wait", "cl_fin", "cl_remove"}

C24_CloseTerminates ==
    \A p \in Procs : InClose(p) ~> proc[p].pc = "ret"
====
